---- MODULE Spec2Model ----
(***************************************************************************)
(* A model of three pieces of the servo sources:                           *)
(*   - util/actor.rs   : spawn, ActorRef, SharedActorRef and the HelloActor *)
(*                       of its test module;                               *)
(*   - layout/flow.rs  : FlowContext (payload accessors, pass dispatch,     *)
(*                       box iteration helpers) and FlowTree;               *)
(*   - servo-gfx/util/url.rs : make_url.                                    *)
(* Each piece has its own specification over the shared variable tuple:    *)
(* Spec / FairSpec (actor), TreeSpec and FlowSpec (flow), UrlSpec.         *)
(***************************************************************************)
EXTENDS Integers, Sequences, FiniteSets, TLC

\* ------------------------------------------------------------------ bounds

\* total number of messages the clients send
MaxSends == 3
\* number of client handles that can exist (the ActorRef and its clones)
MaxHandles == 2
\* number of flows the builder makes
MaxFlows == 3
\* number of render boxes an inline flow holds
MaxBoxes == 2
\* number of document nodes the render boxes are bound to
MaxDomNodes == 2
\* the largest length a layout pass resolves
MaxAu == 1
\* length of the string given to make_url
MaxStrLen == 3
\* length of the path of the current url
MaxPathLen == 4

VARIABLES
    \* ---- util/actor.rs
    pc,            \* position of the spawned task: start, recv, handle, done, failed
    actor,         \* the task-local state built by the factory: <<>> or <<state>>
    factoryCalls,  \* how many times the factory closure f was invoked
    queue,         \* messages in the stream between chan and port
    cur,           \* the message bound to `msg` while handle runs: <<>> or <<msg>>
    inHandle,      \* number of invocations of handle in progress
    handled,       \* every message handle was invoked on, in invocation order
    returns,       \* the value each finished invocation of handle returned
    replies,       \* what handle sent on the reply channels carried by messages
    sent,          \* every message a client sent, in send order
    lost,          \* ids of messages sent when the port was already gone
    refs,          \* the client handles: unused, live, dropped
    chanKind,      \* Chan (one ActorRef) or SharedChan (SharedActorRef clones)
    lastSend,      \* what the last call of send gave its caller
    \* ---- layout/flow.rs
    self,          \* the flow the FlowContext methods are called on (0: none)
    tag,           \* the variant of each flow
    layout,        \* the FlowData of each flow: id, widths, position
    boxes,         \* the render boxes of each flow's payload
    tree,          \* the tree fields of each flow: parent and children
    added,         \* the children given to add_child, per parent, in call order
    result,        \* what the last flow operation gave: value or fail message
    \* ---- servo-gfx/util/url.rs
    str_url,       \* the string make_url is called with
    current_url,   \* its Option<Url>: <<>> or <<url>>
    cwd,           \* os::getcwd()
    url,           \* the Url make_url returned
    url_pc         \* call: before the call, ret: after it

actorVars == <<pc, actor, factoryCalls, queue, cur, inHandle, handled, returns,
               replies, sent, lost, refs, chanKind, lastSend>>

flowVars == <<self, tag, layout, boxes, tree, added, result>>

urlVars == <<str_url, current_url, cwd, url, url_pc>>

vars == <<actorVars, flowVars, urlVars>>

None == "None"

\* ================================================================ actor.rs

Handles == 1..MaxHandles

\* enum HelloMsg { GetName(Chan<~str>), Exit(Chan<()>) }
HelloMsg == {"GetName", "Exit"}

\* do spawn |move name| { HelloActor { name: copy name } }
HelloActor(name) == [name |-> name]

\* impl HelloActor: Actor<HelloMsg>: the value returned and the reply sent
handle(this, msg) ==
    IF msg.body = "GetName"
    THEN [cont |-> TRUE, reply |-> [id |-> msg.id, value |-> this.name]]
    ELSE [cont |-> FALSE, reply |-> [id |-> msg.id, value |-> "()"]]

\* the task has left its loop: the port it owned is gone
Terminated == pc \in {"done", "failed"}

LiveRefs == {h \in Handles : refs[h] = "live"}

\* a message as the model records it: who sent it and as which send
Msg(h, body) == [id |-> Len(sent) + 1, from |-> h, body |-> body]

SendTwice(q, open, m) == IF open THEN Append(Append(q, m), m) ELSE q

\* self.chan.send(move msg): the stream keeps the message while the port
\* lives and discards it once the receiving task has ended
chan_send(q, open, m) == IF open THEN Append(q, m) ELSE q

SendResultFailure(open) == IF open THEN "()" ELSE "failure"

\* fn send(&self, msg: M): no return type, the caller gets unit
SendResult(open) == "()"

\* the client half of a send, common to both kinds of handle
DoSend(h, body) ==
    /\ Len(sent) < MaxSends
    /\ refs[h] = "live"
    /\ LET m == Msg(h, body) IN
       /\ queue' = chan_send(queue, ~Terminated, m)
       /\ sent' = Append(sent, m)
       /\ lost' = IF Terminated THEN lost \cup {m.id} ELSE lost
       /\ lastSend' = [result |-> SendResult(~Terminated), open |-> ~Terminated]
    /\ UNCHANGED <<pc, actor, factoryCalls, cur, inHandle, handled, returns,
                   replies, refs, chanKind>>

\* ActorRef::send
ActorRefSend(h, body) == chanKind = "Chan" /\ DoSend(h, body)

\* SharedActorRef::send
SharedActorRefSend(h, body) == chanKind = "SharedChan" /\ DoSend(h, body)

\* fn SharedActorRef(actor: ActorRef<M>): consumes the ActorRef
MakeShared(h) ==
    /\ chanKind = "Chan"
    /\ refs[h] = "live"
    /\ chanKind' = "SharedChan"
    /\ UNCHANGED <<pc, actor, factoryCalls, queue, cur, inHandle, handled,
                   returns, replies, sent, lost, refs, lastSend>>

\* SharedActorRef::clone
Clone(h, h2) ==
    /\ chanKind = "SharedChan"
    /\ refs[h] = "live"
    /\ refs[h2] = "unused"
    /\ refs' = [refs EXCEPT ![h2] = "live"]
    /\ UNCHANGED <<pc, actor, factoryCalls, queue, cur, inHandle, handled,
                   returns, replies, sent, lost, chanKind, lastSend>>

\* a handle goes out of scope
DropRef(h) ==
    /\ refs[h] = "live"
    /\ refs' = [refs EXCEPT ![h] = "dropped"]
    /\ UNCHANGED <<pc, actor, factoryCalls, queue, cur, inHandle, handled,
                   returns, replies, sent, lost, chanKind, lastSend>>

FactoryAgain ==
    /\ pc \in {"start", "recv"}
    /\ factoryCalls < MaxSends + 1
    /\ actor' = <<HelloActor("bob")>>
    /\ factoryCalls' = factoryCalls + 1
    /\ pc' = "recv"
    /\ UNCHANGED <<queue, cur, inHandle, handled, returns, replies, sent, lost,
                   refs, chanKind, lastSend>>

\* let actor = f();
Factory ==
    /\ pc = "start"
    /\ actor' = <<HelloActor("bob")>>
    /\ factoryCalls' = factoryCalls + 1
    /\ pc' = "recv"
    /\ UNCHANGED <<queue, cur, inHandle, handled, returns, replies, sent, lost,
                   refs, chanKind, lastSend>>

RecvReentrant ==
    /\ pc \in {"recv", "handle"}
    /\ queue # <<>>
    /\ cur' = <<Head(queue)>>
    /\ queue' = Tail(queue)
    /\ inHandle' = inHandle + 1
    /\ handled' = Append(handled, Head(queue))
    /\ pc' = "handle"
    /\ UNCHANGED <<actor, factoryCalls, returns, replies, sent, lost, refs,
                   chanKind, lastSend>>

\* let msg = port.recv(); and the call of actor.handle(move msg)
Recv ==
    /\ pc = "recv"
    /\ queue # <<>>
    /\ cur' = <<Head(queue)>>
    /\ queue' = Tail(queue)
    /\ inHandle' = inHandle + 1
    /\ handled' = Append(handled, Head(queue))
    /\ pc' = "handle"
    /\ UNCHANGED <<actor, factoryCalls, returns, replies, sent, lost, refs,
                   chanKind, lastSend>>

RecvClosedBlocks ==
    /\ pc = "recv"
    /\ queue = <<>>
    /\ LiveRefs = {}
    /\ UNCHANGED actorVars

\* port.recv() when every sender is gone and nothing is queued: recv fails
\* the task ("connection closed"), which unwinds and ends it
RecvClosed ==
    /\ pc = "recv"
    /\ queue = <<>>
    /\ LiveRefs = {}
    /\ pc' = "failed"
    /\ UNCHANGED <<actor, factoryCalls, queue, cur, inHandle, handled, returns,
                   replies, sent, lost, refs, chanKind, lastSend>>

HandleReturnNoBreak ==
    /\ pc = "handle"
    /\ LET r == handle(actor[1], cur[1]) IN
       /\ returns' = Append(returns, r.cont)
       /\ replies' = Append(replies, r.reply)
       /\ pc' = "recv"
    /\ cur' = <<>>
    /\ inHandle' = inHandle - 1
    /\ UNCHANGED <<actor, factoryCalls, queue, handled, sent, lost, refs,
                   chanKind, lastSend>>

\* if !actor.handle(move msg) { break; }
HandleReturn ==
    /\ pc = "handle"
    /\ LET r == handle(actor[1], cur[1]) IN
       /\ returns' = Append(returns, r.cont)
       /\ replies' = Append(replies, r.reply)
       /\ pc' = IF r.cont THEN "recv" ELSE "done"
    /\ cur' = <<>>
    /\ inHandle' = inHandle - 1
    /\ UNCHANGED <<actor, factoryCalls, queue, handled, sent, lost, refs,
                   chanKind, lastSend>>

\* fn spawn: the state when spawn has returned the ActorRef and the new task
\* has not run yet
ActorInit ==
    /\ pc = "start"
    /\ actor = <<>>
    /\ factoryCalls = 0
    /\ queue = <<>>
    /\ cur = <<>>
    /\ inHandle = 0
    /\ handled = <<>>
    /\ returns = <<>>
    /\ replies = <<>>
    /\ sent = <<>>
    /\ lost = {}
    /\ refs = [h \in Handles |-> IF h = 1 THEN "live" ELSE "unused"]
    /\ chanKind = "Chan"
    /\ lastSend = [result |-> None, open |-> TRUE]


\* ================================================================= flow.rs

Flows == 1..MaxFlows

DomNodes == 1..MaxDomNodes

Au == 0..MaxAu

\* pub enum FlowContext: the seven variants
Tags == {"AbsoluteFlow", "BlockFlow", "FloatFlow", "InlineBlockFlow",
         "InlineFlow", "RootFlow", "TableFlow"}

\* the variants that carry a payload beside the FlowData
PayloadTags == {"BlockFlow", "InlineFlow", "RootFlow"}

\* fn FlowData(id: int) -> FlowData
FlowData(id) == [id |-> id, min_width |-> 0, pref_width |-> 0,
                 position |-> [width |-> 0, height |-> 0]]

\* tree::empty(): the tree fields of a flow that is linked to nothing
EmptyTree == [parent |-> 0, children |-> <<>>]

\* the text of a fail: the words of the format string, and what its
\* directive prints: the flow's id (%d of self.d().id) or the flow itself
\* (%? of self, which prints the variant's name)
Message(words, id, repr) == [words |-> words, id |-> id, repr |-> repr]

NoMessage == Message(<<>>, 0, "")

\* a call of a variant's implementation of a pass, self.<pass>_<variant>(..)
Impl(pass, variant) == [pass |-> pass, variant |-> variant]

NoImpl == Impl("", "")

\* what the last operation gave
Outcome(op, f, arg, seed, fail, impl, value) ==
    [op |-> op, flow |-> f, arg |-> arg, seed |-> seed, fail |-> fail,
     impl |-> impl, value |-> value]

NoOutcome == Outcome("", 0, 0, <<>>, NoMessage, NoImpl, <<>>)

\* pure fn d(&self): the FlowData of any variant
d(f) == layout[f]

InlineAlways(f) == [fail |-> NoMessage, value |-> boxes[f]]

\* pure fn inline(&self) -> &self/InlineFlowData
inline(f) ==
    IF tag[f] = "InlineFlow"
    THEN [fail |-> NoMessage, value |-> boxes[f]]
    ELSE [fail |-> Message(<<"Tried", "to", "access", "inline", "data", "of",
                             "non-inline:", "f%d">>, d(f).id, ""),
          value |-> <<>>]

\* pure fn block(&self) -> &self/BlockFlowData
block(f) ==
    IF tag[f] = "BlockFlow"
    THEN [fail |-> NoMessage, value |-> boxes[f]]
    ELSE [fail |-> Message(<<"Tried", "to", "access", "block", "data", "of",
                             "non-block:", "f%d">>, d(f).id, ""),
          value |-> <<>>]

\* pure fn root(&self) -> &self/RootFlowData
root(f) ==
    IF tag[f] = "RootFlow"
    THEN [fail |-> NoMessage, value |-> boxes[f]]
    ELSE [fail |-> Message(<<"Tried", "to", "access", "root", "data", "of",
                             "non-root:", "f%d">>, d(f).id, ""),
          value |-> <<>>]

Dispatched(impl) == [fail |-> NoMessage, impl |-> impl]

Refused(msg) == [fail |-> msg, impl |-> NoImpl]

BubbleWidthsAsBlock(f) == Dispatched(Impl("bubble_widths", "block"))

\* fn bubble_widths(@self, ctx: &LayoutContext): the match on self
bubble_widths(f) ==
    CASE tag[f] = "BlockFlow"  -> Dispatched(Impl("bubble_widths", "block"))
      [] tag[f] = "InlineFlow" -> Dispatched(Impl("bubble_widths", "inline"))
      [] tag[f] = "RootFlow"   -> Dispatched(Impl("bubble_widths", "root"))
      [] OTHER -> Refused(Message(<<"Tried", "to", "bubble_widths", "of",
                                    "flow:", "f%d">>, d(f).id, ""))

\* fn assign_widths(@self, ctx: &LayoutContext)
assign_widths(f) ==
    CASE tag[f] = "BlockFlow"  -> Dispatched(Impl("assign_widths", "block"))
      [] tag[f] = "InlineFlow" -> Dispatched(Impl("assign_widths", "inline"))
      [] tag[f] = "RootFlow"   -> Dispatched(Impl("assign_widths", "root"))
      [] OTHER -> Refused(Message(<<"Tried", "to", "assign_widths", "of",
                                    "flow:", "f%d">>, d(f).id, ""))

\* fn assign_height(@self, ctx: &LayoutContext)
assign_height(f) ==
    CASE tag[f] = "BlockFlow"  -> Dispatched(Impl("assign_height", "block"))
      [] tag[f] = "InlineFlow" -> Dispatched(Impl("assign_height", "inline"))
      [] tag[f] = "RootFlow"   -> Dispatched(Impl("assign_height", "root"))
      [] OTHER -> Refused(Message(<<"Tried", "to", "assign_height", "of",
                                    "flow:", "f%d">>, d(f).id, ""))

\* fn build_display_list_recurse(@self, builder, dirty, offset, list)
build_display_list_recurse(f) ==
    CASE tag[f] = "RootFlow"   -> Dispatched(Impl("build_display_list", "root"))
      [] tag[f] = "BlockFlow"  -> Dispatched(Impl("build_display_list", "block"))
      [] tag[f] = "InlineFlow" -> Dispatched(Impl("build_display_list", "inline"))
      [] OTHER -> Refused(Message(<<"Tried", "to",
                                    "build_display_list_recurse", "of",
                                    "flow:", "%?">>, 0, tag[f]))

\* a flow operation runs in a task that has not failed, on a built flow
CanCall(f) == result.fail = NoMessage /\ f = self /\ tag[f] \in Tags

\* a call of one of the payload accessors
Accessor(f, op, r) ==
    /\ CanCall(f)
    /\ result' = Outcome(op, f, 0, <<>>, r.fail, NoImpl, r.value)
    /\ UNCHANGED <<self, tag, layout, boxes, tree, added>>

CallInline(f) == Accessor(f, "inline", inline(f))

CallBlock(f) == Accessor(f, "block", block(f))

CallRoot(f) == Accessor(f, "root", root(f))

\* a call of bubble_widths: the variant's implementation, which lives in
\* another file, resolves the flow's minimum and preferred widths
BubbleWidths(f) ==
    /\ CanCall(f)
    /\ LET r == bubble_widths(f) IN
       /\ result' = Outcome("bubble_widths", f, 0, <<>>, r.fail, r.impl, <<>>)
       /\ IF r.fail = NoMessage
          THEN \E mw, pw \in Au :
                  layout' = [layout EXCEPT ![f].min_width = mw,
                                            ![f].pref_width = pw]
          ELSE layout' = layout
    /\ UNCHANGED <<self, tag, boxes, tree, added>>

\* a call of assign_widths: the implementation resolves the flow's width
AssignWidths(f) ==
    /\ CanCall(f)
    /\ LET r == assign_widths(f) IN
       /\ result' = Outcome("assign_widths", f, 0, <<>>, r.fail, r.impl, <<>>)
       /\ IF r.fail = NoMessage
          THEN \E w \in Au : layout' = [layout EXCEPT ![f].position.width = w]
          ELSE layout' = layout
    /\ UNCHANGED <<self, tag, boxes, tree, added>>

\* a call of assign_height: the implementation resolves the flow's height
AssignHeight(f) ==
    /\ CanCall(f)
    /\ LET r == assign_height(f) IN
       /\ result' = Outcome("assign_height", f, 0, <<>>, r.fail, r.impl, <<>>)
       /\ IF r.fail = NoMessage
          THEN \E h \in Au : layout' = [layout EXCEPT ![f].position.height = h]
          ELSE layout' = layout
    /\ UNCHANGED <<self, tag, boxes, tree, added>>

\* a call of build_display_list_recurse: the implementation appends to the
\* display list and leaves the flow as it is
BuildDisplayListRecurse(f) ==
    /\ CanCall(f)
    /\ LET r == build_display_list_recurse(f) IN
       result' = Outcome("build_display_list_recurse", f, 0, <<>>, r.fail,
                         r.impl, <<>>)
    /\ UNCHANGED <<self, tag, layout, boxes, tree, added>>

\* ------------------------------------------------- box iteration helpers

\* the callback the folds are run with: it records the box it is given, so
\* its result tells which boxes it was applied to and in which order
cb(acc, box) == Append(acc, box.id)

\* the callback the iterations are run with: it records its box
visit(box) == <<box.id>>

NodeDiffers(box, node) == box.node # node

\* box.d().node == node
BoxIsFor(box, node) == box.node = node

\* a closure as a value: the caller's callback as it is, or the closure of
\* the for_node helpers around it, which captures the node
CallerCb == [fn |-> "cb", node |-> 0]

\* |acc, box| { if box.d().node == node { cb(acc, box) } else { acc } } and
\* |box| { if box.d().node == node { cb(box); } }
ForNode(node) == [fn |-> "for_node", node |-> node]

\* a call of a fold closure
call_fold(c, acc, box) ==
    IF c.fn = "for_node"
    THEN IF BoxIsFor(box, c.node) THEN cb(acc, box) ELSE acc
    ELSE cb(acc, box)

\* a call of an iteration closure: the calls of the caller's callback it
\* makes
call_iter(c, box) ==
    IF c.fn = "for_node"
    THEN IF BoxIsFor(box, c.node) THEN visit(box) ELSE <<>>
    ELSE visit(box)

\* option::map_default(&opt, seed, |box| { cb(seed, *box) })
map_default(opt, seed, c) ==
    IF opt = <<>> THEN seed ELSE call_fold(c, seed, opt[1])

\* boxes.foldl(seed) |acc, box| { cb(*acc, *box) }
foldl(s, seed, c) ==
    LET acc[i \in 0..Len(s)] ==
            IF i = 0 THEN seed ELSE call_fold(c, acc[i - 1], s[i])
    IN acc[Len(s)]

\* box.iter |box| { cb(*box); }
option_iter(opt, c) == IF opt = <<>> THEN <<>> ELSE call_iter(c, opt[1])

\* for boxes.each |box| { cb(*box); }
each(s, c) ==
    LET calls[i \in 0..Len(s)] ==
            IF i = 0 THEN <<>> ELSE calls[i - 1] \o call_iter(c, s[i])
    IN calls[Len(s)]

\* the match of foldl_all_boxes, on a variant t that owns the boxes bs
FoldBoxes(t, bs, seed, c, msg) ==
    CASE t = "RootFlow" ->
           [fail |-> NoMessage, value |-> map_default(bs, seed, c)]
      [] t = "BlockFlow" ->
           [fail |-> NoMessage, value |-> map_default(bs, seed, c)]
      [] t = "InlineFlow" ->
           [fail |-> NoMessage, value |-> foldl(bs, seed, c)]
      [] OTHER -> [fail |-> msg, value |-> <<>>]

IterateMessage(f) ==
    Message(<<"Don't", "know", "how", "to", "iterate", "node's",
              "RenderBoxes", "for", "%?">>, 0, tag[f])

\* self.root().box, self.block().box, self.inline().boxes in the arm of
\* the flow's own variant
Payload(f) ==
    CASE tag[f] = "RootFlow" -> root(f).value
      [] tag[f] = "BlockFlow" -> block(f).value
      [] tag[f] = "InlineFlow" -> inline(f).value
      [] OTHER -> <<>>

\* pure fn foldl_all_boxes<B: Copy>(seed: B, cb) -> B
foldl_all_boxes(f, seed, c) ==
    FoldBoxes(tag[f], Payload(f), seed, c, IterateMessage(f))

\* pure fn foldl_boxes_for_node<B: Copy>(node: Node, seed: B, cb) -> B
foldl_boxes_for_node(f, node, seed) == foldl_all_boxes(f, seed, ForNode(node))

\* the match of iter_all_boxes: the calls of the caller's callback, in order
IterBoxes(t, bs, c, msg) ==
    CASE t = "RootFlow" -> [fail |-> NoMessage, value |-> option_iter(bs, c)]
      [] t = "BlockFlow" -> [fail |-> NoMessage, value |-> option_iter(bs, c)]
      [] t = "InlineFlow" -> [fail |-> NoMessage, value |-> each(bs, c)]
      [] OTHER -> [fail |-> msg, value |-> <<>>]

\* pure fn iter_all_boxes<T>(cb)
iter_all_boxes(f, c) == IterBoxes(tag[f], Payload(f), c, IterateMessage(f))

\* pure fn iter_boxes_for_node<T>(node: Node, cb)
iter_boxes_for_node(f, node) == iter_all_boxes(f, ForNode(node))

Seeds == {<<>>, <<0>>}

FoldlAllBoxes(f, seed) ==
    /\ CanCall(f)
    /\ LET r == foldl_all_boxes(f, seed, CallerCb) IN
       result' = Outcome("foldl_all_boxes", f, 0, seed, r.fail, NoImpl, r.value)
    /\ UNCHANGED <<self, tag, layout, boxes, tree, added>>

FoldlBoxesForNode(f, node, seed) ==
    /\ CanCall(f)
    /\ LET r == foldl_boxes_for_node(f, node, seed) IN
       result' = Outcome("foldl_boxes_for_node", f, node, seed, r.fail, NoImpl,
                         r.value)
    /\ UNCHANGED <<self, tag, layout, boxes, tree, added>>

IterAllBoxes(f) ==
    /\ CanCall(f)
    /\ LET r == iter_all_boxes(f, CallerCb) IN
       result' = Outcome("iter_all_boxes", f, 0, <<>>, r.fail, NoImpl, r.value)
    /\ UNCHANGED <<self, tag, layout, boxes, tree, added>>

IterBoxesForNode(f, node) ==
    /\ CanCall(f)
    /\ LET r == iter_boxes_for_node(f, node) IN
       result' = Outcome("iter_boxes_for_node", f, node, <<>>, r.fail, NoImpl,
                         r.value)
    /\ UNCHANGED <<self, tag, layout, boxes, tree, added>>

\* the render boxes a flow can own: box i of the flow is bound to a document
\* node of the builder's choice
BoxSeqs(n) ==
    UNION {{[i \in 1..k |-> [id |-> i, node |-> ns[i]]] :
               ns \in [1..k -> DomNodes]} : k \in 0..n}

\* what a variant can hold: at most one box for a block or root flow, a
\* sequence for an inline flow, none for the others
PayloadsOf(t) ==
    CASE t \in {"BlockFlow", "RootFlow"} -> BoxSeqs(1)
      [] t = "InlineFlow" -> BoxSeqs(MaxBoxes)
      [] OTHER -> {<<>>}

\* one flow as the builder made it, before any pass has run
FlowInit ==
    /\ \E s \in Flows, t \in Tags, bs \in BoxSeqs(MaxBoxes) :
          /\ bs \in PayloadsOf(t)
          /\ self = s
          /\ tag = [f \in Flows |-> IF f = s THEN t ELSE None]
          /\ boxes = [f \in Flows |-> IF f = s THEN bs ELSE <<>>]
    /\ layout = [f \in Flows |-> FlowData(f)]
    /\ tree = [f \in Flows |-> EmptyTree]
    /\ added = [f \in Flows |-> <<>>]
    /\ result = NoOutcome

\* -------------------------------------------------------------- FlowTree

\* tree::add_child(ops, parent, child): child goes to the end of parent's
\* children and gets parent as its back-link
tree_add_child(t, parent, child) ==
    [t EXCEPT ![parent].children = Append(@, child), ![child].parent = parent]

\* a visitor as a value: it returns false at the flow `stop` and true at
\* every other flow (stop = 0: true at all of them)
Until(stop) == [stop |-> stop]

\* f(*box)
visitor(f, box) == box # f.stop

\* tree::each_child(ops, node, f): f is called on the children in order,
\* up to and including the first one it returns false for
tree_each_child(t, node, f) ==
    LET cs == t[node].children
        refused == {i \in 1..Len(cs) : ~visitor(f, cs[i])}
    IN IF refused = {} THEN cs
       ELSE SubSeq(cs, 1, CHOOSE i \in refused : \A j \in refused : i <= j)

\* fn each_child(ctx: @FlowContext, f: fn(box: @FlowContext) -> bool)
FlowTree_each_child(ctx, f) == tree_each_child(tree, ctx, f)

FlowTree_add_child_swapped(parent, child) == tree_add_child(tree, child, parent)

\* fn add_child(parent: @FlowContext, child: @FlowContext)
FlowTree_add_child(parent, child) == tree_add_child(tree, parent, child)

\* pure fn eq(a, b): core::managed::ptr_eq, the flows are the same box
FlowTree_eq(a, b) == a = b

RECURSIVE Ancestors(_, _)
\* the flows above n, by the back-links
Ancestors(t, n) ==
    IF t[n].parent = 0 THEN {}
    ELSE {t[n].parent} \cup Ancestors(t, t[n].parent)

\* the builder links a flow that has no parent yet under another flow
AddChild(parent, child) ==
    /\ result.fail = NoMessage
    /\ self = 0
    /\ ~FlowTree_eq(parent, child)
    /\ tree[child].parent = 0
    /\ child \notin Ancestors(tree, parent)
    /\ tree' = FlowTree_add_child(parent, child)
    /\ added' = [added EXCEPT ![parent] = Append(@, child)]
    /\ result' = Outcome("add_child", parent, child, <<>>, NoMessage, NoImpl, <<>>)
    /\ UNCHANGED <<self, tag, layout, boxes>>

\* a walk over the children of ctx
EachChild(ctx, stop) ==
    /\ result.fail = NoMessage
    /\ self = 0
    /\ result' = Outcome("each_child", ctx, stop, <<>>, NoMessage, NoImpl,
                         FlowTree_each_child(ctx, Until(stop)))
    /\ UNCHANGED <<self, tag, layout, boxes, tree, added>>

\* the flows as the builder made them, not yet linked
TreeInit ==
    /\ self = 0
    /\ tag = [f \in Flows |-> IF f = 1 THEN "RootFlow" ELSE "BlockFlow"]
    /\ boxes = [f \in Flows |-> <<>>]
    /\ layout = [f \in Flows |-> FlowData(f)]
    /\ tree = [f \in Flows |-> EmptyTree]
    /\ added = [f \in Flows |-> <<>>]
    /\ result = NoOutcome


\* ================================================================== url.rs

\* the characters the urls of the model are written with
Alpha == {"a", "e", "f", "h", "i", "l", "w"}

SchemeExtra == {"0", "1", "2", "3", "4", "5", "6", "7", "8", "9", "+", "-", "."}

UrlChars == {"a", "/", ":"}

PathChars == {"a", "/"}

Min(S) == CHOOSE i \in S : \A j \in S : i <= j

Max(S) == CHOOSE i \in S : \A j \in S : i >= j

Drop(s, n) == SubSeq(s, n + 1, Len(s))

\* url::get_scheme(rawurl): letters, then digits + - . after the first
\* character, up to a colon that is not the first character
get_scheme(rawurl) ==
    LET stops == {i \in 1..Len(rawurl) :
                     /\ rawurl[i] \notin Alpha
                     /\ ~(rawurl[i] \in SchemeExtra /\ i > 1)}
    IN IF stops # {} /\ rawurl[Min(stops)] = ":" /\ Min(stops) > 1
       THEN [ok |-> TRUE, scheme |-> SubSeq(rawurl, 1, Min(stops) - 1),
             rest |-> Drop(rawurl, Min(stops))]
       ELSE [ok |-> FALSE, scheme |-> <<>>, rest |-> rawurl]

Url(scheme, host, path) == [scheme |-> scheme, host |-> host, path |-> path]

\* url::from_str(str_url).get(): the scheme, then after "//" the host up to
\* the next "/", then the path (a url with no scheme does not parse)
from_str(rawurl) ==
    LET s == get_scheme(rawurl)
        rest == s.rest
        slashes == {i \in 3..Len(rest) : rest[i] = "/"}
        stop == IF slashes = {} THEN Len(rest) + 1 ELSE Min(slashes)
    IN IF ~s.ok THEN Url(<<"!">>, <<>>, <<>>)
       ELSE IF Len(rest) >= 2 /\ rest[1] = "/" /\ rest[2] = "/"
       THEN Url(s.scheme, SubSeq(rest, 3, stop - 1), Drop(rest, stop - 1))
       ELSE Url(s.scheme, <<>>, rest)

RECURSIVE split_char(_, _)
\* str::split_char(s, sep): the pieces between the separators
split_char(s, sep) ==
    LET at == {i \in 1..Len(s) : s[i] = sep}
    IN IF at = {} THEN <<s>>
       ELSE <<SubSeq(s, 1, Min(at) - 1)>> \o split_char(Drop(s, Min(at)), sep)

RECURSIVE connect(_, _)
\* str::connect(v, sep): the pieces joined by the separator
connect(v, sep) ==
    IF v = <<>> THEN <<>>
    ELSE IF Len(v) = 1 THEN v[1]
    ELSE v[1] \o sep \o connect(Tail(v), sep)

\* vec init: all but the last element
init(v) == SubSeq(v, 1, Len(v) - 1)

ends_with(s, c) == s # <<>> /\ s[Len(s)] = c

\* pub fn make_url(str_url: ~str, current_url: Option<Url>) -> Url
make_url(s, current, dir) ==
    LET schm == get_scheme(s)
        full ==
          IF ~schm.ok
          THEN IF current = <<>>
               THEN <<"f", "i", "l", "e", ":", "/", "/">> \o dir \o <<"/">> \o s
               ELSE LET cu == current[1] IN
                    IF cu.path = <<>> \/ ends_with(cu.path, "/")
                    THEN cu.scheme \o <<":", "/", "/">> \o cu.host \o <<"/">> \o s
                    ELSE LET path == connect(init(split_char(cu.path, "/"))
                                               \o <<s>>, <<"/">>)
                         IN cu.scheme \o <<":", "/", "/">> \o cu.host \o path
          ELSE s
    IN from_str(full)

RECURSIVE Strings(_, _)
\* the strings over the characters cs of length at most n
Strings(cs, n) ==
    IF n = 0 THEN {<<>>}
    ELSE LET shorter == Strings(cs, n - 1)
         IN shorter \cup {Append(s, c) : s \in shorter, c \in cs}

\* what make_url is called with: a string, and no current url or the url of
\* a page at http-like scheme h, host e, with a path as from_str gives it
StrUrls == Strings(UrlChars, MaxStrLen) \ {<<>>}

CurrentPaths == {p \in Strings(PathChars, MaxPathLen) : p = <<>> \/ p[1] = "/"}

CurrentUrls == {<<>>} \cup {<<Url(<<"h">>, <<"e">>, p)>> : p \in CurrentPaths}

UrlInit ==
    /\ str_url \in StrUrls
    /\ current_url \in CurrentUrls
    /\ cwd = <<"/", "w">>
    /\ url = Url(<<>>, <<>>, <<>>)
    /\ url_pc = "call"

\* the call of make_url
MakeUrl ==
    /\ url_pc = "call"
    /\ url' = make_url(str_url, current_url, cwd)
    /\ url_pc' = "ret"
    /\ UNCHANGED <<str_url, current_url, cwd>>

\* ============================================================ the systems

\* the parts of the state a specification does not use
FlowIdle ==
    /\ self = 0
    /\ tag = [f \in Flows |-> None]
    /\ boxes = [f \in Flows |-> <<>>]
    /\ layout = [f \in Flows |-> FlowData(f)]
    /\ tree = [f \in Flows |-> EmptyTree]
    /\ added = [f \in Flows |-> <<>>]
    /\ result = NoOutcome

UrlIdle ==
    /\ str_url = <<>>
    /\ current_url = <<>>
    /\ cwd = <<>>
    /\ url = Url(<<>>, <<>>, <<>>)
    /\ url_pc = "idle"

\* a step of one part leaves the other parts alone
ActorOnly == UNCHANGED <<flowVars, urlVars>>

FlowOnly == UNCHANGED <<actorVars, urlVars>>

UrlOnly == UNCHANGED <<actorVars, flowVars>>

\* the steps of the spawned task
TaskStep == (Factory \/ Recv \/ RecvClosed \/ HandleReturn) /\ ActorOnly

Init == ActorInit /\ FlowIdle /\ UrlIdle

Next ==
    \/ Factory /\ ActorOnly
    \/ Recv /\ ActorOnly
    \/ RecvClosed /\ ActorOnly
    \/ HandleReturn /\ ActorOnly
    \/ \E h \in Handles, b \in HelloMsg : ActorRefSend(h, b) /\ ActorOnly
    \/ \E h \in Handles, b \in HelloMsg : SharedActorRefSend(h, b) /\ ActorOnly
    \/ \E h \in Handles : MakeShared(h) /\ ActorOnly
    \/ \E h, h2 \in Handles : Clone(h, h2) /\ ActorOnly
    \/ \E h \in Handles : DropRef(h) /\ ActorOnly

\* the actor: a spawned HelloActor and its clients
Spec == Init /\ [][Next]_vars

\* the scheduler runs a task that can take a step
FairSpec == Spec /\ WF_vars(TaskStep)

FlowSpecInit == ActorInit /\ FlowInit /\ UrlIdle

FlowSpecNext ==
    \/ \E f \in Flows : CallInline(f) /\ FlowOnly
    \/ \E f \in Flows : CallBlock(f) /\ FlowOnly
    \/ \E f \in Flows : CallRoot(f) /\ FlowOnly
    \/ \E f \in Flows : BubbleWidths(f) /\ FlowOnly
    \/ \E f \in Flows : AssignWidths(f) /\ FlowOnly
    \/ \E f \in Flows : AssignHeight(f) /\ FlowOnly
    \/ \E f \in Flows : BuildDisplayListRecurse(f) /\ FlowOnly
    \/ \E f \in Flows, seed \in Seeds : FoldlAllBoxes(f, seed) /\ FlowOnly
    \/ \E f \in Flows, n \in DomNodes, seed \in Seeds :
          FoldlBoxesForNode(f, n, seed) /\ FlowOnly
    \/ \E f \in Flows : IterAllBoxes(f) /\ FlowOnly
    \/ \E f \in Flows, n \in DomNodes : IterBoxesForNode(f, n) /\ FlowOnly

\* one flow, the operations of FlowContext applied to it
FlowSpec == FlowSpecInit /\ [][FlowSpecNext]_vars

TreeSpecInit == ActorInit /\ TreeInit /\ UrlIdle

TreeSpecNext ==
    \/ \E p, c \in Flows : AddChild(p, c) /\ FlowOnly
    \/ \E p \in Flows, stop \in 0..MaxFlows : EachChild(p, stop) /\ FlowOnly

\* the flows of one layout, linked and walked through FlowTree
TreeSpec == TreeSpecInit /\ [][TreeSpecNext]_vars

UrlSpecInit == ActorInit /\ FlowIdle /\ UrlInit

UrlSpecNext == MakeUrl /\ UrlOnly

\* make_url applied to each input
UrlSpec == UrlSpecInit /\ [][UrlSpecNext]_vars

\* ------------------------------------------------------- actor.rs: claims

IsPrefix(s, t) == Len(s) <= Len(t) /\ SubSeq(t, 1, Len(s)) = s

IsStop(m) == m.body = "Exit"

\* index of the first stop message of s, 0 when it holds none
FirstStop(s) ==
    IF \E i \in 1..Len(s) : IsStop(s[i])
    THEN CHOOSE i \in 1..Len(s) :
             IsStop(s[i]) /\ \A j \in 1..(i - 1) : ~IsStop(s[j])
    ELSE 0

\* s up to and including its first stop message
UpToStop(s) == IF FirstStop(s) = 0 THEN s ELSE SubSeq(s, 1, FirstStop(s))

\* the messages of s that handle h sent
Project(s, h) == SelectSeq(s, LAMBDA m : m.from = h)

StopHandled == \E i \in 1..Len(handled) : IsStop(handled[i])

\* the i-th send exists and no stop message was sent before it
SentBeforeAnyStop(i) ==
    Len(sent) >= i /\ \A j \in 1..(i - 1) : ~IsStop(sent[j])

HandledAt(i) == Len(handled) >= i /\ handled[i] = sent[i]

C1_Order ==
    chanKind = "Chan" =>
        /\ IsPrefix(handled, UpToStop(sent))
        /\ pc = "done" =>
              /\ handled = UpToStop(sent)
              /\ FirstStop(sent) = Len(handled)
              /\ \A i \in 1..(Len(handled) - 1) : ~IsStop(handled[i])

\* C1: through the one exclusive ActorRef, handle is invoked on the ordinary
\* messages in send order, then once on the stop message, after which the
\* task terminates; no message sent after the stop message is ever handled.
C1_ExclusiveOrderThenStop ==
    /\ []C1_Order
    /\ (chanKind = "Chan" /\ FirstStop(sent) # 0) ~> (pc = "done")

\* C1 witness: an ordinary message and a stop message were handled, the task
\* is done, and a third message was sent after the stop message.
C1_Witness ==
    /\ chanKind = "Chan"
    /\ pc = "done"
    /\ Len(handled) = 2
    /\ Len(sent) = 3

C2_Safety ==
    (chanKind = "SharedChan" /\ ~StopHandled) =>
        /\ handled \o queue = sent
        /\ \A i, j \in 1..Len(handled) :
              i # j => handled[i].id # handled[j].id
        /\ \A h \in Handles : IsPrefix(Project(handled, h), Project(sent, h))
        /\ (pc = "recv" /\ queue = <<>>) => Len(handled) = Len(sent)

\* C2: with the handle shared and cloned, while no stop message has been
\* handled every message sent is queued or handled exactly once, each
\* clone's messages are handled in that clone's send order, the number
\* handled equals the number sent once the queue is drained, and every
\* message no stop message precedes is eventually handled.
C2_SharedExactlyOnce ==
    /\ []C2_Safety
    /\ \A i \in 1..MaxSends :
          (chanKind = "SharedChan" /\ SentBeforeAnyStop(i)) ~> HandledAt(i)

\* C2 witness: two clones have both sent, the second clone's message went
\* between two of the first's, and all three were handled.
C2_Witness ==
    /\ chanKind = "SharedChan"
    /\ ~StopHandled
    /\ Len(handled) = 3
    /\ handled[1].from = 1
    /\ handled[2].from = 2
    /\ handled[3].from = 1
    /\ pc = "recv"

SendCalled == lastSend.result # None

\* C3 as claimed: a send after the task has terminated gives the caller a
\* result other than the one a successful send gives.
C3_ExplicitFailure ==
    (SendCalled /\ ~lastSend.open) => lastSend.result # SendResult(TRUE)

\* C3 as amended: send gives unit in every case; a message sent after the
\* task has terminated is discarded: it is never queued and never handled.
C3_SilentDrop ==
    /\ lastSend.result \in {None, "()"}
    /\ (SendCalled /\ ~lastSend.open) => Len(sent) \in lost
    /\ \A i \in lost :
          /\ \A k \in 1..Len(queue) : queue[k].id # i
          /\ \A k \in 1..Len(handled) : handled[k].id # i

\* C3 witness: the last send went to a terminated task.
C3_Witness == SendCalled /\ ~lastSend.open /\ lost # {} /\ Terminated

HandleReturnsFalse == pc = "handle" /\ ~handle(actor[1], cur[1]).cont

StopReturned == returns # <<>> /\ ~returns[Len(returns)]

\* C4: the task terminates once handle returns false, and once every handle
\* is dropped (after handling what was queued); it terminates in no other
\* case.
C4_Terminates ==
    /\ HandleReturnsFalse ~> (pc = "done")
    /\ (LiveRefs = {}) ~> Terminated
    /\ [](pc = "failed" => (LiveRefs = {} /\ queue = <<>> /\ handled = sent))
    /\ [](pc = "done" => StopReturned)
    /\ []((~StopReturned /\ LiveRefs # {}) => ~Terminated)

\* C4 witness: every handle was dropped and the task ended after handling
\* the messages that were queued.
C4_Witness == pc = "failed" /\ Len(handled) >= 2

C10_Safety ==
    /\ inHandle \in {0, 1}
    /\ (pc = "handle") <=> (inHandle = 1)
    /\ Len(handled) = Len(returns) + inHandle
    /\ \A i \in 1..(Len(returns) - 1) : returns[i]
    /\ (inHandle = 1) => \A i \in 1..Len(returns) : returns[i]
    /\ factoryCalls \in {0, 1}
    /\ (pc = "start") <=> (factoryCalls = 0)
    /\ (factoryCalls = 0) => (handled = <<>> /\ queue = sent /\ actor = <<>>)
    /\ (factoryCalls = 1) => actor = <<HelloActor("bob")>>

\* C10: at most one invocation of handle is in progress, a message is taken
\* only after handle returned true for the one before, the factory runs once
\* and before any message is received, and what was sent before it ran is
\* queued and handled later.
C10_Sequential ==
    /\ []C10_Safety
    /\ <>(factoryCalls = 1)
    /\ \A i \in 1..MaxSends :
          (pc = "start" /\ SentBeforeAnyStop(i)) ~> HandledAt(i)

\* C10 witness: handle is running on the second message, after returning
\* true for the first, while a third message waits in the queue.
C10_Witness ==
    /\ pc = "handle"
    /\ Len(returns) = 1
    /\ returns[1]
    /\ Len(queue) = 1

\* -------------------------------------------------------- flow.rs: claims

Range(s) == {s[i] : i \in 1..Len(s)}

\* where x first stands in s, 0 when it does not
Index(s, x) ==
    IF \E i \in 1..Len(s) : s[i] = x
    THEN Min({i \in 1..Len(s) : s[i] = x})
    ELSE 0

\* the children a visitor sees that returns false at `stop`
ExpectedVisit(a, stop) ==
    IF Index(a, stop) = 0 THEN a ELSE SubSeq(a, 1, Index(a, stop))

Occurrences(s, x) == Cardinality({i \in 1..Len(s) : s[i] = x})

\* C5: each_child visits the children given to add_child once each, in the
\* order they were added, and none after the one the visitor returns false
\* at.
C5_EachChildInOrder ==
    result.op = "each_child" =>
        LET a == added[result.flow] IN
        /\ result.value = ExpectedVisit(a, result.arg)
        /\ result.arg = 0 =>
              \A c \in Flows :
                 Occurrences(result.value, c) = IF c \in Range(a) THEN 1 ELSE 0

\* C5 witness: flow 3 then flow 2 were added to flow 1, and a walk that is
\* never stopped visited 3 then 2.
C5_Witness ==
    /\ result.op = "each_child"
    /\ result.flow = 1
    /\ result.arg = 0
    /\ added[1] = <<3, 2>>
    /\ result.value = <<3, 2>>

PassOps == {"bubble_widths", "assign_widths", "assign_height",
            "build_display_list_recurse"}

\* the pass whose implementations an entry point calls
PassOf(op) ==
    IF op = "build_display_list_recurse" THEN "build_display_list" ELSE op

\* the name the implementations and messages use for a variant
VariantOf(t) ==
    CASE t = "AbsoluteFlow" -> "absolute"
      [] t = "BlockFlow" -> "block"
      [] t = "FloatFlow" -> "float"
      [] t = "InlineBlockFlow" -> "inline-block"
      [] t = "InlineFlow" -> "inline"
      [] t = "RootFlow" -> "root"
      [] t = "TableFlow" -> "table"

C6_Step ==
    /\ result.fail = NoMessage
    /\ result'.op \in PassOps =>
          IF tag[self] \in {"BlockFlow", "InlineFlow", "RootFlow"}
          THEN /\ result'.fail = NoMessage
               /\ result'.impl = Impl(PassOf(result'.op), VariantOf(tag[self]))
          ELSE /\ result'.fail # NoMessage
               /\ result'.impl = NoImpl
               /\ layout' = layout

\* C6: a pass entry point calls the implementation of the flow's own
\* variant for a block, inline or root flow; for any other flow it fails,
\* calls no implementation and leaves the flow's widths and position as
\* they were, and nothing runs after the failure.
C6_PassDispatch == [][C6_Step]_vars

\* C6 witness: assign_height was called on a float flow and failed.
C6_Witness ==
    /\ result.op = "assign_height"
    /\ tag[self] = "FloatFlow"
    /\ result.fail # NoMessage

AccessorOps == {"inline", "block", "root"}

TagOfAccessor(op) ==
    CASE op = "inline" -> "InlineFlow"
      [] op = "block" -> "BlockFlow"
      [] op = "root" -> "RootFlow"

\* the words by which a message can name a variant
VariantWords(t) == {t, VariantOf(t)}

AccessorReturnsPayload ==
    result.fail = NoMessage /\ result.value = boxes[self]

\* C7 as claimed: on the wrong variant an accessor fails with a message
\* that gives the flow's id, the expected variant and the actual variant.
C7_MessageNamesBothVariants ==
    result.op \in AccessorOps =>
        IF tag[self] = TagOfAccessor(result.op)
        THEN AccessorReturnsPayload
        ELSE /\ result.fail # NoMessage
             /\ result.fail.id = layout[self].id
             /\ result.op \in Range(result.fail.words)
             /\ \/ result.fail.repr \in VariantWords(tag[self])
                \/ \E w \in VariantWords(tag[self]) :
                      w \in Range(result.fail.words)

\* C7 as amended: on the wrong variant an accessor fails with a message
\* that gives the flow's id and the expected variant; it does not name the
\* actual variant.
C7_MessageNamesExpectedVariant ==
    result.op \in AccessorOps =>
        IF tag[self] = TagOfAccessor(result.op)
        THEN AccessorReturnsPayload
        ELSE /\ result.fail # NoMessage
             /\ result.fail.id = layout[self].id
             /\ result.op \in Range(result.fail.words)
             /\ result.fail.repr = ""
             /\ \A w \in VariantWords(tag[self]) :
                   w \notin Range(result.fail.words)

\* C7 witness: inline() was called on a block flow and failed.
C7_Witness ==
    /\ result.op = "inline"
    /\ tag[self] = "BlockFlow"
    /\ result.fail # NoMessage

Ids(bs) == [i \in 1..Len(bs) |-> bs[i].id]

BoxesFor(bs, node) == SelectSeq(bs, LAMBDA box : box.node = node)

OwnsBoxes == tag[self] \in {"BlockFlow", "InlineFlow", "RootFlow"}

\* C8: the folds and iterations apply the callback to the flow's boxes, once
\* each and in order, starting from the seed; the filtered ones give what the
\* unfiltered ones give on the boxes bound to the node; all four fail on a
\* flow of a variant that owns no boxes.
C8_BoxHelpers ==
    /\ result.op = "foldl_all_boxes" =>
          IF OwnsBoxes
          THEN /\ result.fail = NoMessage
               /\ result.value = result.seed \o Ids(boxes[self])
          ELSE result.fail # NoMessage
    /\ result.op = "foldl_boxes_for_node" =>
          IF OwnsBoxes
          THEN LET bs == BoxesFor(boxes[self], result.arg) IN
               /\ result.fail = NoMessage
               /\ result.value = result.seed \o Ids(bs)
               /\ result.value =
                     FoldBoxes(tag[self], bs, result.seed, CallerCb,
                               NoMessage).value
          ELSE result.fail # NoMessage
    /\ result.op = "iter_all_boxes" =>
          IF OwnsBoxes
          THEN /\ result.fail = NoMessage
               /\ result.value = Ids(boxes[self])
          ELSE result.fail # NoMessage
    /\ result.op = "iter_boxes_for_node" =>
          IF OwnsBoxes
          THEN LET bs == BoxesFor(boxes[self], result.arg) IN
               /\ result.fail = NoMessage
               /\ result.value = Ids(bs)
               /\ result.value =
                     IterBoxes(tag[self], bs, CallerCb, NoMessage).value
          ELSE result.fail # NoMessage
    /\ (OwnsBoxes /\ tag[self] # "InlineFlow") => Len(boxes[self]) <= 1

\* C8 witness: a fold from the seed <<0>> over an inline flow of two boxes,
\* for the node the second box alone is bound to.
C8_Witness ==
    /\ result.op = "foldl_boxes_for_node"
    /\ tag[self] = "InlineFlow"
    /\ Len(boxes[self]) = 2
    /\ boxes[self][1].node # result.arg
    /\ boxes[self][2].node = result.arg
    /\ result.value = <<0, 2>>

\* --------------------------------------------------------- url.rs: claims

\* the directory part of a path: up to and including its last "/"
DirPart(p) ==
    IF p = <<>> THEN <<"/">>
    ELSE SubSeq(p, 1, Max({i \in 1..Len(p) : p[i] = "/"}))

\* C9: with a current url, a string that has no scheme gives the current
\* scheme and host and the directory part of the current path followed by
\* the string; a string that has a scheme is parsed as it is.
C9_BasedOnCurrentUrl ==
    (url_pc = "ret" /\ current_url # <<>>) =>
        IF get_scheme(str_url).ok
        THEN url = from_str(str_url)
        ELSE url = Url(current_url[1].scheme, current_url[1].host,
                       DirPart(current_url[1].path) \o str_url)

====
